---- MODULE Spec2Model ----
(***************************************************************************)
(* Model of the two scripts of the repository.                             *)
(*                                                                         *)
(*   exploring-python/pydantic/notebook.py : split_content_to_cells and    *)
(*       the per-file conversion loop (title cell, write).                 *)
(*   setup.py : install_requirements and its caller setup_venv.            *)
(*                                                                         *)
(* A Python str is modelled as a sequence of one-character strings, so     *)
(* that splitlines, strip, startswith, slicing and join are computed and   *)
(* not assumed.                                                            *)
(***************************************************************************)
EXTENDS Integers, Sequences, FiniteSets, TLC

VARIABLES
    md_file,            \* notebook.py: the file name of this loop iteration
    md_content,         \* the text read from the file
    form,               \* the shape the text was rendered from (<<>>: none)
    pc,                 \* position in the conversion of this file
    lines,              \* md_content.splitlines()
    idx,                \* number of lines the for loop has consumed
    cells,              \* cells / nb.cells (one list object)
    in_code_block,
    code_block,
    markdown_block,
    current_code_type,
    code_types,         \* history: current_code_type in force at each append
    requirements,       \* setup.py: lines of requirements.txt
    ipc,                \* position in install_requirements / setup_venv
    pkg,                \* index of the package being handled
    commands,           \* the pip commands run so far, with their return codes
    result,             \* what install_requirements returned
    venv_result         \* what setup_venv returned

nbvars == <<md_file, md_content, form, pc, lines, idx, cells, in_code_block,
            code_block, markdown_block, current_code_type, code_types>>
stvars == <<requirements, ipc, pkg, commands, result, venv_result>>
vars == <<md_file, md_content, form, pc, lines, idx, cells, in_code_block,
          code_block, markdown_block, current_code_type, code_types,
          requirements, ipc, pkg, commands, result, venv_result>>

----------------------------------------------------------------------------
(* Bounds of the model *)

\* longest text, in lines, drawn from LineSet
MaxLines == 4
\* most markdown/code groups of a rendered document
MaxGroups == 2
\* most lines of one markdown or code region of a rendered document
MaxSeg == 2
\* most lines of requirements.txt
MaxReqs == 3

----------------------------------------------------------------------------
(* Characters and Python str operations *)

NL == "\n"
FF == "\f"
\* the backtick character (written out: the lexer does not accept it in a string)
BT == "bt"

\* str.splitlines() line boundaries, among the characters of the model
LineBoundaries == {NL, FF}

\* the characters str.strip() removes, among the characters of the model
Whitespace == {" ", "\t", NL, FF}

RECURSIVE SplitAcc(_, _, _)
SplitAcc(s, cur, acc) ==
    IF s = <<>>
    THEN IF cur = <<>> THEN acc ELSE Append(acc, cur)
    ELSE IF Head(s) \in LineBoundaries
         THEN SplitAcc(Tail(s), <<>>, Append(acc, cur))
         ELSE SplitAcc(Tail(s), Append(cur, Head(s)), acc)

RECURSIVE SplitAtNewlines(_, _)
SplitAtNewlines(s, cur) ==
    IF s = <<>> THEN <<cur>>
    ELSE IF Head(s) \in LineBoundaries
         THEN <<cur>> \o SplitAtNewlines(Tail(s), <<>>)
         ELSE SplitAtNewlines(Tail(s), Append(cur, Head(s)))

\* a variant of SplitLines: md_content.split("\n"), which keeps the empty
\* string after a final newline
SplitLines_SplitNL(s) == SplitAtNewlines(s, <<>>)

\* md_content.splitlines()
SplitLines(s) == SplitAcc(s, <<>>, <<>>)

RECURSIVE LStrip(_)
LStrip(s) ==
    IF s # <<>> /\ Head(s) \in Whitespace THEN LStrip(Tail(s)) ELSE s

RECURSIVE RStrip(_)
RStrip(s) ==
    IF s # <<>> /\ s[Len(s)] \in Whitespace
    THEN RStrip(SubSeq(s, 1, Len(s) - 1))
    ELSE s

\* line.strip()
Strip(s) == RStrip(LStrip(s))

\* s.startswith(p)
StartsWith(s, p) == Len(s) >= Len(p) /\ SubSeq(s, 1, Len(p)) = p

\* s[3:]
SliceFrom3(s) == SubSeq(s, 4, Len(s))

RECURSIVE Join(_, _)
\* sep.join(xs)
Join(sep, xs) ==
    IF xs = <<>> THEN <<>>
    ELSE IF Len(xs) = 1 THEN xs[1]
    ELSE xs[1] \o sep \o Join(sep, Tail(xs))

JoinNL(xs) == Join(<<NL>>, xs)

Fence == <<BT, BT, BT>>
PythonTag == <<"p", "y", "t", "h", "o", "n">>
BashName == <<"b", "a", "s", "h">>
H1 == <<"#", " ">>

----------------------------------------------------------------------------
(* notebook.py: cells *)

\* nbf.v4.new_markdown_cell(source)
new_markdown_cell(source) ==
    [cell_type |-> "markdown", source |-> source, metadata |-> {}]

\* nbf.v4.new_code_cell(source, metadata=metadata)
new_code_cell(source, metadata) ==
    [cell_type |-> "code", source |-> source, metadata |-> metadata]

\* the metadata of the cell a closing fence emits (lines 48-51)
CodeMetadata(code_type) ==
    IF code_type = PythonTag THEN {} ELSE {<<"kernelspec", "name", BashName>>}

\* line.strip().startswith(three backticks) (line 45)
IsFenceLine(line) == StartsWith(Strip(line), Fence)

\* a variant of LanguageType: the slice is forgotten
LanguageType_NoSlice(line) == Strip(line)

\* line.strip()[3:] (line 58)
LanguageType(line) == SliceFrom3(Strip(line))

----------------------------------------------------------------------------
(* notebook.py: the title of a file *)

Upper(c) ==
    CASE c = "a" -> "A" [] c = "b" -> "B" [] c = "c" -> "C" [] OTHER -> c

Lower(c) ==
    CASE c = "A" -> "a" [] c = "B" -> "b" [] c = "C" -> "c" [] OTHER -> c

IsCased(c) == c \in {"a", "b", "c", "A", "B", "C"}

RECURSIVE TitleAcc(_, _)
TitleAcc(s, prevCased) ==
    IF s = <<>> THEN <<>>
    ELSE <<IF prevCased THEN Lower(Head(s)) ELSE Upper(Head(s))>>
         \o TitleAcc(Tail(s), IsCased(Head(s)))

\* str.title()
TitleCase(s) == TitleAcc(s, FALSE)

\* str.replace('_', ' ')
ReplaceUnderscores(s) == [k \in 1..Len(s) |-> IF s[k] = "_" THEN " " ELSE s[k]]

\* os.path.splitext(name)[0]: the name up to its last dot (not a leading one)
SplitextRoot(name) ==
    LET dots == {k \in 2..Len(name) : name[k] = "."}
    IN  IF dots = {} THEN name
        ELSE SubSeq(name, 1, (CHOOSE k \in dots : \A j \in dots : j <= k) - 1)

\* the source of the title cell (line 89)
TitleSource(name) == H1 \o TitleCase(ReplaceUnderscores(SplitextRoot(name)))

\* the list of files (lines 8-27), one short name standing for the eighteen
md_files == << <<"1", "_", "a", "_", "b", "c", ".", "m", "d">> >>

----------------------------------------------------------------------------
(* The texts a file may hold *)

SeqsUpTo(S, n) == UNION {[1..k -> S] : k \in 0..n}

\* The lines texts are built from: a blank line, prose, a level-1 heading
\* (also a Python comment when inside a fence), a bare fence, a python fence,
\* an indented fence with a spaced tag and trailing blanks, and a fragment
\* holding a form feed.
LineSet ==
    { <<>>,
      <<"a">>,
      <<"#", " ", "a">>,
      Fence,
      Fence \o PythonTag,
      <<" ">> \o Fence \o <<" ", "s", "h", " ">>,
      <<"a", FF, "b">> }

\* every text of at most MaxLines lines of LineSet (a final blank line gives
\* the text a trailing newline)
Texts == {JoinNL(ls) : ls \in SeqsUpTo(LineSet, MaxLines)}

\* Rendered documents: groups of (markdown lines, opening fence with a tag,
\* code lines, closing fence), then no or MaxSeg further markdown lines. A
\* shape gives the
\* number of lines of each region; the lines are told apart by the number of
\* their group and their place in the region.
Digit(n) == <<"0", "1", "2", "3", "4", "5", "6", "7", "8", "9">>[n + 1]

FormTags == {PythonTag, <<"s", "h">>}

FormGroups == [nmd : 1..MaxSeg, tag : FormTags, ncode : 1..MaxSeg]

Forms == [groups : UNION {[1..k -> FormGroups] : k \in 1..MaxGroups},
          nafter : {0, MaxSeg}]

MdLines(g, n) == [k \in 1..n |-> <<"m", Digit(g), Digit(k)>>]

CodeLines(g, n) == [k \in 1..n |-> <<" ", "c", Digit(g), Digit(k)>>]

RECURSIVE RenderGroups(_, _)
RenderGroups(gs, g) ==
    IF g > Len(gs) THEN <<>>
    ELSE MdLines(g, gs[g].nmd) \o <<Fence \o gs[g].tag>>
         \o CodeLines(g, gs[g].ncode) \o <<Fence>>
         \o RenderGroups(gs, g + 1)

RenderLines(f) == RenderGroups(f.groups, 1) \o MdLines(0, f.nafter)

Render(f) == JoinNL(RenderLines(f))

NoForm == <<>>

----------------------------------------------------------------------------
(* notebook.py: one iteration of the conversion loop *)

NotebookIdle ==
    /\ pc = "idle" /\ md_file = <<>> /\ md_content = <<>> /\ form = NoForm
    /\ lines = <<>> /\ idx = 0 /\ cells = <<>> /\ in_code_block = FALSE
    /\ code_block = <<>> /\ markdown_block = <<>>
    /\ current_code_type = PythonTag /\ code_types = <<>>

SetupIdle ==
    /\ ipc = "idle" /\ requirements = <<>> /\ pkg = 0 /\ commands = <<>>
    /\ result = "none" /\ venv_result = "none"

\* the state at line 78: a file of the list has been read
Init ==
    /\ md_file \in {md_files[k] : k \in 1..Len(md_files)}
    /\ \/ md_content \in Texts /\ form = NoForm
       \/ form \in Forms /\ md_content = Render(form)
    /\ pc = "call"
    /\ lines = <<>> /\ idx = 0 /\ cells = <<>> /\ in_code_block = FALSE
    /\ code_block = <<>> /\ markdown_block = <<>>
    /\ current_code_type = PythonTag /\ code_types = <<>>
    /\ SetupIdle

\* lines 37-42: split the text, reset the locals
EnterSplit ==
    /\ pc = "call"
    /\ lines' = SplitLines(md_content)
    /\ idx' = 0
    /\ cells' = <<>>
    /\ in_code_block' = FALSE
    /\ code_block' = <<>>
    /\ markdown_block' = <<>>
    /\ current_code_type' = PythonTag
    /\ code_types' = <<>>
    /\ pc' = "scan"
    /\ UNCHANGED <<md_file, md_content, form>>
    /\ UNCHANGED stvars

\* the line the for loop handles next
Line == lines[idx + 1]

Scanning == pc = "scan" /\ idx < Len(lines)

\* the cell lines 49-51 append
ClosedCodeCell(block, code_type) ==
    new_code_cell(JoinNL(block), CodeMetadata(code_type))

\* a variant of MarkdownCell: the joined text is stripped
MarkdownCell_Stripped(block) == new_markdown_cell(Strip(JoinNL(block)))

\* the cell lines 56 and 67 append
MarkdownCell(block) == new_markdown_cell(JoinNL(block))

\* a variant of NonEmpty: the guard is missing
NonEmpty_Always(block) == TRUE

\* line 55, line 66: the truth value of the list
NonEmpty(block) == block # <<>>

\* a variant of FenceClose: a code block without lines emits no cell
FenceClose_SkipsEmpty ==
    /\ Scanning
    /\ IsFenceLine(Line)
    /\ in_code_block
    /\ IF code_block # <<>>
       THEN /\ cells' = Append(cells, ClosedCodeCell(code_block, current_code_type))
            /\ code_types' = Append(code_types, current_code_type)
       ELSE UNCHANGED <<cells, code_types>>
    /\ code_block' = <<>>
    /\ in_code_block' = ~in_code_block
    /\ idx' = idx + 1
    /\ UNCHANGED <<md_file, md_content, form, pc, lines, markdown_block,
                   current_code_type>>
    /\ UNCHANGED stvars

\* lines 45-52, 59: a fence line inside a code block
FenceClose ==
    /\ Scanning
    /\ IsFenceLine(Line)
    /\ in_code_block
    /\ cells' = Append(cells, ClosedCodeCell(code_block, current_code_type))
    /\ code_types' = Append(code_types, current_code_type)
    /\ code_block' = <<>>
    /\ in_code_block' = ~in_code_block
    /\ idx' = idx + 1
    /\ UNCHANGED <<md_file, md_content, form, pc, lines, markdown_block,
                   current_code_type>>
    /\ UNCHANGED stvars

\* lines 45, 53-59: a fence line outside a code block
FenceOpen ==
    /\ Scanning
    /\ IsFenceLine(Line)
    /\ ~in_code_block
    /\ IF NonEmpty(markdown_block)
       THEN /\ cells' = Append(cells, MarkdownCell(markdown_block))
            /\ code_types' = Append(code_types, current_code_type)
            /\ markdown_block' = <<>>
       ELSE UNCHANGED <<cells, code_types, markdown_block>>
    /\ current_code_type' = LanguageType(Line)
    /\ in_code_block' = ~in_code_block
    /\ idx' = idx + 1
    /\ UNCHANGED <<md_file, md_content, form, pc, lines, code_block>>
    /\ UNCHANGED stvars

\* lines 60-61
AppendCode ==
    /\ Scanning
    /\ ~IsFenceLine(Line)
    /\ in_code_block
    /\ code_block' = Append(code_block, Line)
    /\ idx' = idx + 1
    /\ UNCHANGED <<md_file, md_content, form, pc, lines, cells, in_code_block,
                   markdown_block, current_code_type, code_types>>
    /\ UNCHANGED stvars

\* lines 62-63
AppendMarkdown ==
    /\ Scanning
    /\ ~IsFenceLine(Line)
    /\ ~in_code_block
    /\ markdown_block' = Append(markdown_block, Line)
    /\ idx' = idx + 1
    /\ UNCHANGED <<md_file, md_content, form, pc, lines, cells, in_code_block,
                   code_block, current_code_type, code_types>>
    /\ UNCHANGED stvars

\* a variant of FinalFlush: the lines of an unclosed code block are emitted
FinalFlush_FlushesCode ==
    /\ pc = "scan"
    /\ idx = Len(lines)
    /\ IF in_code_block
       THEN /\ cells' = Append(cells, ClosedCodeCell(code_block, current_code_type))
            /\ code_types' = Append(code_types, current_code_type)
       ELSE IF markdown_block # <<>>
            THEN /\ cells' = Append(cells, MarkdownCell(markdown_block))
                 /\ code_types' = Append(code_types, current_code_type)
            ELSE UNCHANGED <<cells, code_types>>
    /\ pc' = "title"
    /\ UNCHANGED <<md_file, md_content, form, lines, idx, in_code_block,
                   code_block, markdown_block, current_code_type>>
    /\ UNCHANGED stvars

\* lines 65-69, 84: the loop is over; flush the markdown and return
FinalFlush ==
    /\ pc = "scan"
    /\ idx = Len(lines)
    /\ IF NonEmpty(markdown_block)
       THEN /\ cells' = Append(cells, MarkdownCell(markdown_block))
            /\ code_types' = Append(code_types, current_code_type)
       ELSE UNCHANGED <<cells, code_types>>
    /\ pc' = "title"
    /\ UNCHANGED <<md_file, md_content, form, lines, idx, in_code_block,
                   code_block, markdown_block, current_code_type>>
    /\ UNCHANGED stvars

\* line 87: nb.cells[0]['source'].startswith("# ")
FirstIsH1(cs) == StartsWith(cs[1].source, H1)

\* lines 87-90: the title cell; nb.cells[0] of an empty list raises IndexError
TitleStep ==
    /\ pc = "title"
    /\ IF cells = <<>>
       THEN /\ pc' = "error"
            /\ UNCHANGED <<cells, code_types>>
       ELSE /\ pc' = "write"
            /\ IF ~FirstIsH1(cells)
               THEN /\ cells' = <<new_markdown_cell(TitleSource(md_file))>> \o cells
                    /\ code_types' = <<current_code_type>> \o code_types
               ELSE UNCHANGED <<cells, code_types>>
    /\ UNCHANGED <<md_file, md_content, form, lines, idx, in_code_block,
                   code_block, markdown_block, current_code_type>>
    /\ UNCHANGED stvars

\* lines 92-96: the notebook is written
WriteNotebook ==
    /\ pc = "write"
    /\ pc' = "done"
    /\ UNCHANGED <<md_file, md_content, form, lines, idx, cells, in_code_block,
                   code_block, markdown_block, current_code_type, code_types>>
    /\ UNCHANGED stvars

Next ==
    \/ EnterSplit
    \/ FenceClose
    \/ FenceOpen
    \/ AppendCode
    \/ AppendMarkdown
    \/ FinalFlush
    \/ TitleStep
    \/ WriteNotebook

Spec == Init /\ [][Next]_vars

----------------------------------------------------------------------------
(* setup.py: install_requirements and the end of setup_venv *)

Packages == {"openai", "pydantic"}

\* what a subprocess.run of pip can do: return code 0, a nonzero return
\* code, or fail to start the interpreter (OSError, which line 114 does not
\* catch)
Outcomes == {"zero", "nonzero", "oserror"}

\* the state at line 155: setup_venv calls install_requirements
InitSetup ==
    /\ requirements \in SeqsUpTo(Packages, MaxReqs)
    /\ ipc = "call"
    /\ pkg = 0
    /\ commands = <<>>
    /\ result = "none"
    /\ venv_result = "none"
    /\ NotebookIdle

\* a pip command of the log
Command(cmd, n, outcome) ==
    [cmd |-> cmd, n |-> n, package |-> requirements[n], outcome |-> outcome]

\* lines 92-94: read requirements.txt
ReadRequirements ==
    /\ ipc = "call"
    /\ ipc' = "loop"
    /\ pkg' = 0
    /\ UNCHANGED <<requirements, commands, result, venv_result>>
    /\ UNCHANGED nbvars

\* lines 96-102: pip show of the next package
PipShow ==
    /\ ipc = "loop"
    /\ pkg < Len(requirements)
    /\ \E outcome \in Outcomes :
        /\ commands' = Append(commands, Command("show", pkg + 1, outcome))
        /\ IF outcome = "zero"
           THEN pkg' = pkg + 1 /\ ipc' = "loop"
           ELSE IF outcome = "nonzero"
                THEN pkg' = pkg /\ ipc' = "install"
                ELSE pkg' = pkg /\ ipc' = "raised"
    /\ UNCHANGED <<requirements, result, venv_result>>
    /\ UNCHANGED nbvars

\* a variant of PipInstall: a failed install is logged and the loop goes on
PipInstall_Continues ==
    /\ ipc = "install"
    /\ \E outcome \in Outcomes :
        /\ commands' = Append(commands, Command("install", pkg + 1, outcome))
        /\ IF outcome = "oserror"
           THEN pkg' = pkg /\ ipc' = "raised"
           ELSE pkg' = pkg + 1 /\ ipc' = "loop"
    /\ UNCHANGED <<requirements, result, venv_result>>
    /\ UNCHANGED nbvars

\* lines 103-113: pip install of a package pip show did not find
PipInstall ==
    /\ ipc = "install"
    /\ \E outcome \in Outcomes :
        /\ commands' = Append(commands, Command("install", pkg + 1, outcome))
        /\ IF outcome = "zero"
           THEN pkg' = pkg + 1 /\ ipc' = "loop" /\ result' = result
           ELSE IF outcome = "nonzero"
                THEN pkg' = pkg /\ ipc' = "returned" /\ result' = "False"
                ELSE pkg' = pkg /\ ipc' = "raised" /\ result' = result
    /\ UNCHANGED <<requirements, venv_result>>
    /\ UNCHANGED nbvars

\* line 119: every package has been handled
ReturnTrue ==
    /\ ipc = "loop"
    /\ pkg = Len(requirements)
    /\ result' = "True"
    /\ ipc' = "returned"
    /\ UNCHANGED <<requirements, pkg, commands, venv_result>>
    /\ UNCHANGED nbvars

\* lines 155-158: setup_venv returns False or the activate path
SetupVenvReturn ==
    /\ ipc = "returned"
    /\ venv_result' = IF result = "True" THEN "activate_path" ELSE "False"
    /\ ipc' = "done"
    /\ UNCHANGED <<requirements, pkg, commands, result>>
    /\ UNCHANGED nbvars

NextSetup ==
    \/ ReadRequirements
    \/ PipShow
    \/ PipInstall
    \/ ReturnTrue
    \/ SetupVenvReturn

SpecSetup == InitSetup /\ [][NextSetup]_vars

----------------------------------------------------------------------------
(* Vocabulary of the properties *)

\* split_content_to_cells has returned and the title step has not run
Returned == pc = "title"

\* the for loop has started
InSplit == pc \in {"scan", "title"}

\* the places of the fence lines among the first n lines
FencePlaces(n) == {k \in 1..n : IsFenceLine(lines[k])}

FenceCount(n) == Cardinality(FencePlaces(n))

\* the place of the j-th fence line
FencePlace(j) == CHOOSE k \in FencePlaces(Len(lines)) : FenceCount(k) = j

CodePlaces(cs) == {k \in 1..Len(cs) : cs[k].cell_type = "code"}

MarkdownPlaces(cs) == {k \in 1..Len(cs) : cs[k].cell_type = "markdown"}

\* the place in cells of the j-th code cell
CodePlace(j) ==
    CHOOSE k \in CodePlaces(cells) :
        Cardinality({m \in CodePlaces(cells) : m <= k}) = j

\* the blocks of the specification: a MarkdownBlock holds its text, a
\* CodeBlock its text and the language type in force when it was emitted
Blocks ==
    [k \in 1..Len(cells) |->
        IF cells[k].cell_type = "markdown"
        THEN <<"MarkdownBlock", cells[k].source>>
        ELSE <<"CodeBlock", cells[k].source, code_types[k]>>]

\* the lines of a text, split at every newline (the inverse of the join)
RECURSIVE SplitAtNL(_, _)
SplitAtNL(s, cur) ==
    IF s = <<>> THEN <<cur>>
    ELSE IF Head(s) = NL THEN <<cur>> \o SplitAtNL(Tail(s), <<>>)
    ELSE SplitAtNL(Tail(s), Append(cur, Head(s)))

\* the lines of all cells, in the order of the cells
RECURSIVE CellLines(_)
CellLines(cs) ==
    IF cs = <<>> THEN <<>>
    ELSE SplitAtNL(cs[1].source, <<>>) \o CellLines(Tail(cs))

NotFence(l) == ~IsFenceLine(l)

NonFenceLines == SelectSeq(lines, NotFence)

\* every opening fence has its closing fence
ProperlyPaired == FenceCount(Len(lines)) % 2 = 0

\* some opening fence is directly followed by its closing fence
HasEmptyCodeRegion ==
    \E k \in FencePlaces(Len(lines)) :
        /\ FenceCount(k) % 2 = 1
        /\ k < Len(lines)
        /\ IsFenceLine(lines[k + 1])

\* the run of non-fence lines that ends right before line k
RECURSIVE RunBefore(_)
RunBefore(k) ==
    IF k = 1 \/ IsFenceLine(lines[k - 1]) THEN <<>>
    ELSE Append(RunBefore(k - 1), lines[k - 1])

\* the markdown regions before line k that hold at least one line
MarkdownRegionsBefore(k) ==
    {j \in 1..(k - 1) :
        /\ ~IsFenceLine(lines[j])
        /\ FenceCount(j) % 2 = 0
        /\ (j = 1 \/ IsFenceLine(lines[j - 1]))}

----------------------------------------------------------------------------
(* C1 *)

RECURSIVE ExpectedGroups(_, _)
ExpectedGroups(gs, g) ==
    IF g > Len(gs) THEN <<>>
    ELSE << <<"MarkdownBlock", JoinNL(MdLines(g, gs[g].nmd))>>,
            <<"CodeBlock", JoinNL(CodeLines(g, gs[g].ncode)), gs[g].tag>> >>
         \o ExpectedGroups(gs, g + 1)

ExpectedBlocks(f) ==
    ExpectedGroups(f.groups, 1)
    \o (IF f.nafter = 0 THEN <<>>
        ELSE << <<"MarkdownBlock", JoinNL(MdLines(0, f.nafter))>> >>)

\* C1: for a text rendered from groups of markdown lines, an opening fence
\* with a tag, code lines and a closing fence, followed by further markdown
\* lines, split_content_to_cells returns, in source order, a MarkdownBlock of
\* each markdown region and a CodeBlock of each code region with the tag of
\* its opening fence.
C1_BlocksInSourceOrder ==
    (Returned /\ form # NoForm) => Blocks = ExpectedBlocks(form)

C1_Witness ==
    /\ Returned
    /\ form # NoForm
    /\ Len(form.groups) = 2
    /\ form.groups[1].tag # form.groups[2].tag
    /\ form.nafter = MaxSeg
    /\ Len(cells) = 5

----------------------------------------------------------------------------
(* C2 *)

\* C2 as stated: for every text with properly paired fences, the lines of
\* the blocks, in output order, are the non-fence lines of the text.
C2_Lossless ==
    (Returned /\ ProperlyPaired) => CellLines(cells) = NonFenceLines

\* C2 as amended: the same, for texts with properly paired fences in which no
\* opening fence is directly followed by its closing fence.
C2_LosslessNonEmptyCode ==
    (Returned /\ ProperlyPaired /\ ~HasEmptyCodeRegion)
        => CellLines(cells) = NonFenceLines

C2_Witness ==
    /\ Returned
    /\ form = NoForm
    /\ ProperlyPaired
    /\ ~HasEmptyCodeRegion
    /\ FenceCount(Len(lines)) = 2
    /\ Len(NonFenceLines) = 2
    /\ Len(cells) = 2

----------------------------------------------------------------------------
(* C3 *)

NoTripleBacktick(s) == \A k \in 1..Len(s) : ~StartsWith(SubSeq(s, k, Len(s)), Fence)

\* trailing-newline normalization: one newline at the end is dropped
DropTrailingNewline(s) ==
    IF s # <<>> /\ s[Len(s)] = NL THEN SubSeq(s, 1, Len(s) - 1) ELSE s

\* the newline is the only line boundary of the text
OnlyNewlines(s) == \A k \in 1..Len(s) : s[k] \in LineBoundaries => s[k] = NL

\* C3 as stated: for every text without a triple backtick, the result is
\* exactly one MarkdownBlock whose text is the text, up to its trailing newline.
C3_OneMarkdownBlock ==
    (Returned /\ NoTripleBacktick(md_content))
        => Blocks = << <<"MarkdownBlock", DropTrailingNewline(md_content)>> >>

\* C3 as amended: the same, for every text that is not empty and whose only
\* line boundary is the newline.
C3_OneMarkdownBlockNonEmpty ==
    (/\ Returned
     /\ NoTripleBacktick(md_content)
     /\ md_content # <<>>
     /\ OnlyNewlines(md_content))
        => Blocks = << <<"MarkdownBlock", DropTrailingNewline(md_content)>> >>

C3_Witness ==
    /\ Returned
    /\ form = NoForm
    /\ NoTripleBacktick(md_content)
    /\ OnlyNewlines(md_content)
    /\ Len(lines) = 3
    /\ md_content[Len(md_content)] = NL
    /\ Len(cells) = 1

----------------------------------------------------------------------------
(* C4 *)

\* the opening fence that is never closed
LastFence == FencePlace(FenceCount(Len(lines)))

\* C4: when the text ends inside a code block, the function returns; the
\* markdown lines right before the unclosed fence are the last block, and the
\* blocks are those of the text before that fence: one per markdown region
\* that holds a line and one per closed code region, none for what follows.
C4_UnterminatedFence ==
    (InSplit /\ idx = Len(lines) /\ ~ProperlyPaired) =>
        /\ ENABLED FinalFlush \/ Returned
        /\ in_code_block
        /\ RunBefore(LastFence) # <<>> =>
              /\ cells # <<>>
              /\ Blocks[Len(cells)] = <<"MarkdownBlock", JoinNL(RunBefore(LastFence))>>
        /\ Cardinality(MarkdownPlaces(cells)) = Cardinality(MarkdownRegionsBefore(LastFence))
        /\ Cardinality(CodePlaces(cells)) = FenceCount(LastFence - 1) \div 2

C4_Witness ==
    /\ Returned
    /\ form = NoForm
    /\ ~ProperlyPaired
    /\ FenceCount(Len(lines)) = 1
    /\ RunBefore(LastFence) # <<>>
    /\ LastFence < Len(lines)
    /\ Len(cells) = 1

----------------------------------------------------------------------------
(* C5 *)

\* this step of the for loop appends a cell
Flushes == pc = "scan" /\ Len(cells') = Len(cells) + 1

\* this step handles a closing fence
ClosesFence == Scanning /\ IsFenceLine(Line) /\ in_code_block

\* C5 as stated: an empty accumulator is never flushed: every step that
\* appends a cell appends it from an accumulator that holds a line.
C5_NoEmptyFlush ==
    [][Flushes => IF ClosesFence THEN code_block # <<>>
                  ELSE markdown_block # <<>>]_vars

\* C5 as amended: an empty markdown accumulator is never flushed, so no
\* MarkdownBlock is built from zero lines; a closing fence always emits a
\* CodeBlock, also from zero lines.
C5_NoEmptyMarkdownFlush ==
    [][/\ (Flushes /\ ~ClosesFence) => markdown_block # <<>>
       /\ ClosesFence => /\ Flushes
                         /\ cells'[Len(cells')].source = JoinNL(code_block)
       /\ (pc = "scan" /\ ~ClosesFence /\ markdown_block = <<>>) => cells' = cells]_vars

\* fence, fence, fence with nothing between them, all scanned
C5_Witness ==
    /\ pc = "scan"
    /\ idx >= 3
    /\ IsFenceLine(lines[idx])
    /\ IsFenceLine(lines[idx - 1])
    /\ IsFenceLine(lines[idx - 2])
    /\ FenceCount(idx) = 3
    /\ Len(cells) = 1
    /\ cells[1].cell_type = "code"
    /\ cells[1].source = <<>>

----------------------------------------------------------------------------
(* C6 *)

\* the text after the three backticks of a fence line, trimmed
TrimmedTag(line) == Strip(SliceFrom3(LStrip(line)))

\* C6: the tag of every CodeBlock is the trimmed text after the three
\* backticks of its own opening fence line (so the text of a closing fence
\* changes the tag of no block).
C6_TagOfOpeningFence ==
    InSplit =>
        \A j \in 1..Cardinality(CodePlaces(cells)) :
            Blocks[CodePlace(j)][3] = TrimmedTag(lines[FencePlace(2 * j - 1)])

----------------------------------------------------------------------------
(* C7 *)

\* C7: a code cell is plain exactly when its tag is "python"; for any other
\* tag its kernel metadata carries the tag of the block.
C7_KernelCarriesTag ==
    \A k \in CodePlaces(cells) :
        IF code_types[k] = PythonTag
        THEN cells[k].metadata = {}
        ELSE cells[k].metadata = {<<"kernelspec", "name", code_types[k]>>}

----------------------------------------------------------------------------
(* C8 *)

\* C8: the title step raises no error, and after it the first cell is a
\* markdown cell that begins with "# ".
C8_FirstCellIsHeading ==
    /\ pc # "error"
    /\ pc \in {"write", "done"} =>
          /\ cells # <<>>
          /\ cells[1].cell_type = "markdown"
          /\ StartsWith(cells[1].source, H1)

----------------------------------------------------------------------------
(* C9 *)

\* C9: after any prefix of the lines, in_code_block is true iff the prefix
\* holds an odd number of fence lines, and the number of code cells emitted
\* is half the number of fence lines, rounded down.
C9_TwoStateMachine ==
    InSplit =>
        /\ in_code_block = (FenceCount(idx) % 2 = 1)
        /\ Cardinality(CodePlaces(cells)) = FenceCount(idx) \div 2

C9_Witness ==
    /\ pc = "scan"
    /\ FenceCount(idx) = 3
    /\ in_code_block
    /\ idx < Len(lines)
    /\ ~IsFenceLine(lines[idx])
    /\ Cardinality(CodePlaces(cells)) = 1

----------------------------------------------------------------------------
(* C10 *)

ShowsUpTo(j) == Cardinality({k \in 1..j : commands[k].cmd = "show"})

HasOutcome(cmd, n, outcome) ==
    \E j \in 1..Len(commands) :
        commands[j].cmd = cmd /\ commands[j].n = n /\ commands[j].outcome = outcome

\* C10: the packages are handled in file order and nothing is retried: the
\* j-th pip show is of the j-th line; a pip install follows directly the pip
\* show of the same line that reported the package absent, and each line is
\* installed at most once; a failed install is the last command and makes the
\* function return False; True is returned only when every line was found
\* installed or was installed successfully; setup_venv passes a False on.
C10_InstallInOrderNoRetry ==
    /\ \A j \in 1..Len(commands) :
          /\ commands[j].cmd = "show" => commands[j].n = ShowsUpTo(j)
          /\ commands[j].cmd = "install" =>
                /\ j > 1
                /\ commands[j - 1].cmd = "show"
                /\ commands[j - 1].n = commands[j].n
                /\ commands[j - 1].outcome = "nonzero"
          /\ (commands[j].cmd = "install" /\ commands[j].outcome = "nonzero") =>
                /\ j = Len(commands)
                /\ ipc \in {"returned", "done"}
                /\ result = "False"
    /\ \A j, k \in 1..Len(commands) :
          (commands[j].cmd = commands[k].cmd /\ commands[j].n = commands[k].n) => j = k
    /\ result = "False" =>
          /\ commands # <<>>
          /\ commands[Len(commands)].cmd = "install"
          /\ commands[Len(commands)].outcome = "nonzero"
    /\ result = "True" =>
          \A n \in 1..Len(requirements) :
              HasOutcome("show", n, "zero") \/ HasOutcome("install", n, "zero")
    /\ ipc = "done" => (venv_result = "False") = (result = "False")

\* the second of three packages failed to install after the first was installed
C10_Witness ==
    /\ ipc = "done"
    /\ result = "False"
    /\ venv_result = "False"
    /\ Len(requirements) = 3
    /\ Len(commands) = 4
    /\ commands[2].cmd = "install"
    /\ commands[2].outcome = "zero"
    /\ commands[4].n = 2

====
